---------------------------- MODULE Spec2Model ----------------------------
(***************************************************************************)
(* Model of bot_login.py: the quiescence wait (wait_for_ajax_and_postbacks), *)
(* the verified mutators (set_expected_grade_with_retries and its panel    *)
(* scoped variant), the entity workflow (process_course), the batch        *)
(* orchestrator (process_all_courses) and the run driver (main).           *)
(*                                                                         *)
(* Three specifications share the variables:                               *)
(*   SpecIdle     one call of wait_for_ajax_and_postbacks, poll by poll    *)
(*   SpecMutator  one call of a verified mutator, step by step             *)
(*   Spec         main, process_all_courses and process_course             *)
(***************************************************************************)
EXTENDS Integers, Sequences, FiniteSets, TLC

(***************************************************************************)
(* Bounds of the model.                                                    *)
(***************************************************************************)
MaxTimeout == 2
MaxActive == 1
MaxAttempts == 3

(***************************************************************************)
(* Python's None where a string read from the page is expected: no page    *)
(* string equals it, its one element not being a character.                *)
(***************************************************************************)
None == <<"None">>

(***************************************************************************)
(* Python strings read from the page are sequences of characters, so that  *)
(* strip(), lower(), set(text) and the `in` of substrings are computed.    *)
(***************************************************************************)
UPPER == <<"A","B","C","D","E","F","G","H","I","J","K","L","M",
           "N","O","P","Q","R","S","T","U","V","W","X","Y","Z">>
LOWER == <<"a","b","c","d","e","f","g","h","i","j","k","l","m",
           "n","o","p","q","r","s","t","u","v","w","x","y","z">>

LowerChar(c) ==
  IF \E i \in 1..Len(UPPER) : UPPER[i] = c
  THEN LOWER[CHOOSE i \in 1..Len(UPPER) : UPPER[i] = c]
  ELSE c

\* str.lower()
Lower(s) == [i \in 1..Len(s) |-> LowerChar(s[i])]

IsSpace(c) == c = " "

\* str.strip()
Strip(s) ==
  IF \A i \in 1..Len(s) : IsSpace(s[i])
  THEN <<>>
  ELSE LET first == CHOOSE i \in 1..Len(s) :
                      ~IsSpace(s[i]) /\ \A j \in 1..(i-1) : IsSpace(s[j])
           last  == CHOOSE i \in 1..Len(s) :
                      ~IsSpace(s[i]) /\ \A j \in (i+1)..Len(s) : IsSpace(s[j])
       IN  SubSeq(s, first, last)

\* set(text)
CharSet(s) == {s[i] : i \in 1..Len(s)}

\* pat in s
Contains(s, pat) ==
  \E i \in 1..(Len(s) - Len(pat) + 1) : SubSeq(s, i, i + Len(pat) - 1) = pat

VARIABLES
  \* ---- wait_for_ajax_and_postbacks (SpecIdle)
  w_pc,          \* "poll" | "check" | "returned" | "raised"
  w_timeout,     \* the timeout parameter, in clock ticks
  w_end,         \* end = _time.time() + timeout
  w_now,         \* _time.time(), in ticks since the call
  w_polls,       \* executions of the try block so far
  w_all_raised,  \* every execute_script call so far raised
  w_any_raised,  \* some execute_script call raised
  hasJQuery,     \* window.jQuery is defined on the page
  hasPRM,        \* Sys.WebForms.PageRequestManager is defined on the page
  \* ---- set_expected_grade_with_retries / ..._in_panel_with_retries (SpecMutator)
  m_fn,          \* "general" | "panel": which of the two functions runs
  m_pc,          \* position inside the function
  m_value,       \* parameter value (the target)
  m_attempts,    \* parameter attempts
  m_attempt,     \* loop variable attempt
  m_fresh,       \* the handle grade_elem / sel_elem still refers to the live control
  m_settled,     \* the attempt whose mutation and settle wait ran last
  m_read,        \* the last verification read: its attempt and selected_val
  m_last_exception, \* last_exception / last_exc is set
  m_result,      \* the return value: [ok, val]
  m_did,         \* the strategies applied in the running attempt, the last backoff sleep
  g_options,     \* the <option>s of ddlExpectedGrade: <<[value, text], ...>>
  g_value,       \* the value of ddlExpectedGrade on the live page
  \* ---- main, process_all_courses, process_course (Spec)
  pc,            \* position in main / process_all_courses
  exit_code,     \* the argument of sys.exit, -1 while main runs
  quit_calls,    \* calls of driver.quit()
  has_credentials, \* USER_ID and PASSWORD are both set and not empty
  login_attempt, \* login_ucam: loop variable attempt, 0 outside the loop
  site_visited,  \* driver.get(LOGIN_URL) was called
  nav_clicks,    \* click_xpath calls made for the menu click main is at
  exit_from,     \* the position of main at which sys.exit was called
  initial_options,  \* process_all_courses: the snapshot <<[value, text], ...>>
  processed_values, \* the set processed_values (of process_all_courses, then of main)
  rnd,           \* loop variable rnd
  made_progress, \* made_progress
  idx,           \* position of the running for loop in its list
  retry_values,  \* retry_values
  new_retry,     \* new_retry
  attempt,       \* loop variable attempt of the recovery passes
  results,       \* the list results
  saved,         \* the file log_path: [written, records]
  pac_result,    \* what process_all_courses returned: [kind, records]
  leftover,      \* main: the options read for the leftover pass
  final_completed, \* main: the result of the last wait_until_evaluation_completed
  wf,            \* position in process_course, "none" outside a call
  status,        \* process_course: the dict status
  fixed,         \* process_course: the local fixed
  page,          \* the remote page: [sel, table, faculty]
  grade_adopts,  \* the remote page of this run adopts the expected grade when first set
  only_pending,  \* every read of lblEvaluationStatus so far gave Pending!
  seen,          \* what the last status wait of process_all_courses polled
  ev,            \* what happened in the running process_course call
  trace          \* one ev per finished process_course call, in call order

idleVars == <<w_pc, w_timeout, w_end, w_now, w_polls, w_all_raised, w_any_raised,
              hasJQuery, hasPRM>>

mutVars == <<m_fn, m_pc, m_value, m_attempts, m_attempt, m_fresh, m_settled, m_read,
             m_last_exception, m_result, m_did, g_options, g_value>>

mainVars == <<pc, exit_code, quit_calls, has_credentials, login_attempt, site_visited,
              nav_clicks,
              exit_from, initial_options, processed_values, rnd,
              made_progress, idx, retry_values, new_retry, attempt, results, saved,
              pac_result, leftover, final_completed, wf, status, fixed, page,
              grade_adopts, only_pending, seen, ev, trace>>

vars == <<idleVars, mutVars, mainVars>>

(***************************************************************************)
(* wait_for_ajax_and_postbacks                                             *)
(***************************************************************************)
\* The injected script: [jq, prm], a missing capability reading 0 and false.
ScriptResultBusyWhenMissing(jq, prm, jqActive, prmBusy) ==
  <<IF jq THEN jqActive ELSE 1, IF prm THEN prmBusy ELSE TRUE>>

ScriptResult(jq, prm, jqActive, prmBusy) ==
  <<IF jq THEN jqActive ELSE 0, IF prm THEN prmBusy ELSE FALSE>>

\* (not jq_active) and (not prm_busy)
IsIdle(active) == active[1] = 0 /\ ~active[2]

\* The variables of the quiescence wait while no call of it is modelled.
IdleAtRest ==
  /\ w_pc = "rest" /\ w_timeout = 0 /\ w_end = 0 /\ w_now = 0 /\ w_polls = 0
  /\ w_all_raised = TRUE /\ w_any_raised = FALSE
  /\ hasJQuery = FALSE /\ hasPRM = FALSE

\* The page before any course was selected: the sentinel option, no panel.
BlankPage == [sel |-> <<"0">>, table |-> FALSE, faculty |-> <<>>]

\* What a process_course call did, noted as it runs. faults: the steps that
\* failed; unsettled: the last action on the page that no wait has followed
\* yet; early: what was read of the page while an action was unsettled.
NoEvent == [value |-> <<>>, caller |-> "none", loaded |-> FALSE, submits |-> 0,
            clicks |-> 0, msg |-> FALSE, fix |-> FALSE, steps |-> 0,
            faults |-> {}, unsettled |-> "none", early |-> {}, js_ok |-> FALSE,
            found |-> {}]

\* The variables of the run while no run is modelled.
MainAtRest ==
  /\ pc = "rest" /\ exit_code = -1 /\ quit_calls = 0
  /\ has_credentials = FALSE /\ login_attempt = 0 /\ site_visited = FALSE
  /\ nav_clicks = 0
  /\ exit_from = "none"
  /\ initial_options = <<>> /\ processed_values = {} /\ rnd = 0
  /\ made_progress = FALSE /\ idx = 0 /\ retry_values = <<>> /\ new_retry = <<>>
  /\ attempt = 0 /\ results = <<>>
  /\ saved = [written |-> FALSE, records |-> <<>>]
  /\ pac_result = [kind |-> "none", records |-> <<>>]
  /\ leftover = <<>> /\ final_completed = FALSE
  /\ wf = "none" /\ status = <<>> /\ fixed = FALSE
  /\ page = BlankPage /\ grade_adopts = FALSE /\ only_pending = TRUE /\ seen = "none"
  /\ ev = NoEvent /\ trace = <<>>

\* No strategy applied yet in the attempt, no backoff sleep made: the sleep
\* is noted with its attempt and its length in units of the delay parameter.
NothingDone == [strategies |-> {}, slept |-> [attempt |-> 0, units |-> 0]]

\* The mutator variables while no mutator call is modelled.
MutatorAtRest ==
  /\ m_fn = "general"
  /\ m_pc = "rest"
  /\ m_value = <<"A">>
  /\ m_attempts = 0
  /\ m_attempt = 0
  /\ m_fresh = FALSE
  /\ m_settled = 0
  /\ m_read = [attempt |-> 0, val |-> <<>>]
  /\ m_last_exception = FALSE
  /\ m_result = [ok |-> FALSE, val |-> <<>>]
  /\ m_did = NothingDone
  /\ g_options = <<>>
  /\ g_value = <<>>

InitIdle ==
  /\ w_pc = "poll"
  /\ w_timeout \in 0..MaxTimeout
  /\ w_end = w_timeout
  /\ w_now = 0
  /\ w_polls = 0
  /\ w_all_raised = TRUE
  /\ w_any_raised = FALSE
  /\ hasJQuery \in BOOLEAN
  /\ hasPRM \in BOOLEAN
  /\ MutatorAtRest
  /\ MainAtRest

\* The try block of one loop iteration: run the script, return True when idle.
\* The script call takes dt ticks; it raises or yields [jq, prm].
WaitPoll ==
  /\ w_pc = "poll"
  /\ \E dt \in 0..1, raises \in BOOLEAN, jqActive \in 0..MaxActive, prmBusy \in BOOLEAN :
       /\ w_now' = w_now + dt
       /\ w_polls' = w_polls + 1
       /\ w_all_raised' = (w_all_raised /\ raises)
       /\ w_any_raised' = (w_any_raised \/ raises)
       /\ w_pc' = IF ~raises /\ IsIdle(ScriptResult(hasJQuery, hasPRM, jqActive, prmBusy))
                  THEN "returned" ELSE "check"
  /\ UNCHANGED <<w_timeout, w_end, hasJQuery, hasPRM>>
  /\ UNCHANGED <<mutVars, mainVars>>

\* if _time.time() > end: raise Exception(...)
WaitTimeout ==
  /\ w_pc = "check"
  /\ w_now > w_end
  /\ w_pc' = "raised"
  /\ UNCHANGED <<w_timeout, w_end, w_now, w_polls, w_all_raised, w_any_raised,
                 hasJQuery, hasPRM>>
  /\ UNCHANGED <<mutVars, mainVars>>

\* _time.sleep(0.12), then the next iteration
WaitSleep ==
  /\ w_pc = "check"
  /\ ~(w_now > w_end)
  /\ w_now' = w_now + 1
  /\ w_pc' = "poll"
  /\ UNCHANGED <<w_timeout, w_end, w_polls, w_all_raised, w_any_raised,
                 hasJQuery, hasPRM>>
  /\ UNCHANGED <<mutVars, mainVars>>

NextIdle == WaitPoll \/ WaitTimeout \/ WaitSleep

SpecIdle == InitIdle /\ [][NextIdle]_vars


(***************************************************************************)
(* The verified mutators: set_expected_grade_with_retries ("general") and  *)
(* set_expected_grade_in_panel_with_retries ("panel").                     *)
(***************************************************************************)
\* The option lists a page may give ddlExpectedGrade: values equal to the
\* labels, values coded apart from the (padded) labels, no grade option.
PlainOptions ==
  << [value |-> <<"0">>, text |-> <<"-">>],
     [value |-> <<"A">>, text |-> <<"A">>],
     [value |-> <<"B">>, text |-> <<"B">>] >>
CodedOptions ==
  << [value |-> <<"0">>, text |-> <<"-">>],
     [value |-> <<"4">>, text |-> <<" ","A"," ">>] >>
EmptyOptions ==
  << [value |-> <<"0">>, text |-> <<"-">>] >>
OptionLists == {PlainOptions, CodedOptions, EmptyOptions}

Targets == {<<"A">>, <<"B">>}

OptionValues(options) == {options[i].value : i \in 1..Len(options)}

\* Strategy 1's search: the first option whose value, or stripped text, is value.
MatchesOption(o, value) == o.value = value \/ Strip(o.text) = value
HasTargetOption(options, value) ==
  \E i \in 1..Len(options) : MatchesOption(options[i], value)
TargetOption(options, value) ==
  options[CHOOSE i \in 1..Len(options) :
            /\ MatchesOption(options[i], value)
            /\ \A j \in 1..(i-1) : ~MatchesOption(options[j], value)]

\* el.value = value by script: the option of that value, or no selection.
JsSetValue(options, value) ==
  IF value \in OptionValues(options) THEN value ELSE <<>>

\* Select.select_by_visible_text: the first option with that exact text.
HasTextOption(options, value) ==
  \E i \in 1..Len(options) : Strip(options[i].text) = value
TextOption(options, value) ==
  options[CHOOSE i \in 1..Len(options) :
            /\ Strip(options[i].text) = value
            /\ \A j \in 1..(i-1) : Strip(options[j].text) # value]

\* if selected_val == value
VerifiedTruthy(selected_val, value) == selected_val # <<>>

Verified(selected_val, value) == selected_val = value

InitMutator ==
  /\ IdleAtRest
  /\ MainAtRest
  /\ m_fn \in {"general", "panel"}
  /\ m_pc = "enter"
  /\ m_value \in Targets
  /\ m_attempts \in 0..MaxAttempts
  /\ m_attempt = 0
  /\ m_fresh = FALSE
  /\ m_settled = 0
  /\ m_read = [attempt |-> 0, val |-> <<>>]
  /\ m_last_exception = FALSE
  /\ m_result = [ok |-> FALSE, val |-> <<>>]
  /\ m_did = NothingDone
  /\ g_options \in OptionLists
  /\ g_value \in OptionValues(g_options)

MutFrame == UNCHANGED <<m_fn, m_value, m_attempts, g_options>>

\* for attempt in range(1, attempts + 1): a further iteration follows attempt a
MoreAttemptsAndOne(a, n) == a <= n

MoreAttempts(a, n) == a < n

\* for attempt in range(1, attempts + 1): the first iteration, or none at all
MutEnter ==
  /\ m_pc = "enter"
  /\ IF MoreAttempts(0, m_attempts)
     THEN /\ m_attempt' = 1
          /\ m_pc' = "locate"
          /\ UNCHANGED m_result
     ELSE /\ m_attempt' = 0
          /\ m_pc' = "returned"
          /\ m_result' = [ok |-> FALSE, val |-> None]
  /\ UNCHANGED <<m_fresh, m_settled, m_read, m_last_exception, g_value, m_did>>
  /\ MutFrame /\ UNCHANGED <<idleVars, mainVars>>

\* wait.until(presence_of_element_located(...)): the handle of this attempt, or
\* a timeout that the attempt's except clause keeps in last_exception.
MutLocate ==
  /\ m_pc = "locate"
  /\ \E found \in BOOLEAN :
       IF found
       THEN /\ m_fresh' = TRUE
            /\ m_pc' = IF m_fn = "general" THEN "strategy1" ELSE "strategy2"
            /\ UNCHANGED m_last_exception
       ELSE /\ m_fresh' = FALSE
            /\ m_last_exception' = TRUE
            /\ m_pc' = "backoff"
  /\ m_did' = [m_did EXCEPT !.strategies = {}]
  /\ UNCHANGED <<m_attempt, m_settled, m_read, m_result, g_value>>
  /\ MutFrame /\ UNCHANGED <<idleVars, mainVars>>

\* Strategy 1: click the select, then the matching option. A stale handle, or a
\* click that raises, leaves the page as it is.
MutStrategy1 ==
  /\ m_pc = "strategy1"
  /\ \E raises \in BOOLEAN :
       g_value' = IF m_fresh /\ ~raises /\ HasTargetOption(g_options, m_value)
                  THEN TargetOption(g_options, m_value).value
                  ELSE g_value
  /\ m_pc' = "strategy2"
  /\ m_did' = [m_did EXCEPT !.strategies = @ \cup {1}]
  /\ UNCHANGED <<m_attempt, m_fresh, m_settled, m_read, m_last_exception, m_result>>
  /\ MutFrame /\ UNCHANGED <<idleVars, mainVars>>

\* Strategy 2: el.value = value and a change event, by script.
MutStrategy2 ==
  /\ m_pc = "strategy2"
  /\ \E raises \in BOOLEAN :
       g_value' = IF m_fresh /\ ~raises
                  THEN JsSetValue(g_options, m_value)
                  ELSE g_value
  /\ m_pc' = IF m_fn = "general" THEN "strategy3" ELSE "settle"
  /\ m_did' = [m_did EXCEPT !.strategies = @ \cup {2}]
  /\ UNCHANGED <<m_attempt, m_fresh, m_settled, m_read, m_last_exception, m_result>>
  /\ MutFrame /\ UNCHANGED <<idleVars, mainVars>>

\* Strategy 3: Select.select_by_value, else Select.select_by_visible_text.
MutStrategy3 ==
  /\ m_pc = "strategy3"
  /\ \E raises \in BOOLEAN :
       g_value' = IF ~m_fresh \/ raises THEN g_value
                  ELSE IF m_value \in OptionValues(g_options) THEN m_value
                  ELSE IF HasTextOption(g_options, m_value)
                       THEN TextOption(g_options, m_value).value
                  ELSE g_value
  /\ m_pc' = "settle"
  /\ m_did' = [m_did EXCEPT !.strategies = @ \cup {3}]
  /\ UNCHANGED <<m_attempt, m_fresh, m_settled, m_read, m_last_exception, m_result>>
  /\ MutFrame /\ UNCHANGED <<idleVars, mainVars>>

\* time.sleep(base_delay), wait_for_ajax_and_postbacks in a try, the progress
\* indicator wait in a try: none of them can end the attempt.
MutSettle ==
  /\ m_pc = "settle"
  /\ m_settled' = m_attempt
  /\ m_pc' = "verify"
  /\ UNCHANGED <<m_attempt, m_fresh, m_read, m_last_exception, m_result, g_value, m_did>>
  /\ MutFrame /\ UNCHANGED <<idleVars, mainVars>>

\* Re-find the control and read its value; return when it is the target.
MutVerify ==
  /\ m_pc = "verify"
  /\ \E found \in BOOLEAN :
       IF found
       THEN /\ m_fresh' = TRUE
            /\ m_read' = [attempt |-> m_attempt, val |-> g_value]
            /\ UNCHANGED m_last_exception
            /\ IF Verified(g_value, m_value)
               THEN /\ m_result' = [ok |-> TRUE, val |-> g_value]
                    /\ m_pc' = "returned"
               ELSE /\ m_pc' = "backoff"
                    /\ UNCHANGED m_result
       ELSE /\ m_last_exception' = TRUE
            /\ m_pc' = "backoff"
            /\ UNCHANGED <<m_fresh, m_read, m_result>>
  /\ UNCHANGED <<m_attempt, m_settled, g_value, m_did>>
  /\ MutFrame /\ UNCHANGED <<idleVars, mainVars>>

\* The sleep after a failed attempt, in units of the delay parameter:
\* time.sleep(base_delay * attempt) in the general function, time.sleep(delay)
\* in the panel one.
BackoffUnits(fn, a) == IF fn = "general" THEN a ELSE 1

\* time.sleep(base_delay * attempt) / time.sleep(delay), then the next attempt;
\* after the last one the function returns None / False.
MutBackoff ==
  /\ m_pc = "backoff"
  /\ IF MoreAttempts(m_attempt, m_attempts)
     THEN /\ m_attempt' = m_attempt + 1
          /\ m_pc' = "locate"
          /\ UNCHANGED m_result
     ELSE /\ m_pc' = "returned"
          /\ m_result' = [ok |-> FALSE, val |-> None]
          /\ UNCHANGED m_attempt
  /\ m_did' = [m_did EXCEPT !.slept = [attempt |-> m_attempt,
                                          units |-> BackoffUnits(m_fn, m_attempt)]]
  /\ UNCHANGED <<m_fresh, m_settled, m_read, m_last_exception, g_value>>
  /\ MutFrame /\ UNCHANGED <<idleVars, mainVars>>

\* The remote page: a postback replaces the control, with any option selected;
\* every handle resolved before is stale.
RemoteReplaceGrade ==
  /\ m_pc \in {"locate", "strategy1", "strategy2", "strategy3", "settle", "verify", "backoff"}
  /\ \E v \in OptionValues(g_options) : g_value' = v
  /\ m_fresh' = FALSE
  /\ UNCHANGED <<m_pc, m_attempt, m_settled, m_read, m_last_exception, m_result, m_did>>
  /\ MutFrame /\ UNCHANGED <<idleVars, mainVars>>

NextMutator ==
  \/ MutEnter \/ MutLocate \/ MutStrategy1 \/ MutStrategy2 \/ MutStrategy3
  \/ MutSettle \/ MutVerify \/ MutBackoff \/ RemoteReplaceGrade

SpecMutator == InitMutator /\ [][NextMutator]_vars


(***************************************************************************)
(* The remote page, as far as main, process_all_courses and process_course *)
(* observe it.                                                             *)
(***************************************************************************)
NumCourses == 2
MaxPolls == 2

\* max_rounds and extra_attempts of process_all_courses
max_rounds == 4
extra_attempts == 2
\* max_retries of the login_ucam call of main
max_retries == 3

c101 == <<"1","0","1">>
c102 == <<"1","0","2">>
c103 == <<"1","0","3">>

AllCourseOptions ==
  << [value |-> c101, text |-> <<"I","n","t","r","o">>],
     [value |-> c102, text |-> <<" ","D","a","t","a"," ">>],
     [value |-> c103, text |-> <<"N","e","t","s">>] >>

CourseOptions == SubSeq(AllCourseOptions, 1, NumCourses)
CourseValues == {CourseOptions[i].value : i \in 1..Len(CourseOptions)}

\* The "none selected" options that lead the list of ddlAcaCalSection.
SentinelOptions ==
  << [value |-> <<>>, text |-> <<"-">>],
     [value |-> <<"0">>, text |-> <<"S","e","l","e","c","t">>],
     [value |-> <<"0","_","0">>, text |-> <<"A","l","l">>] >>

\* The option lists the page may show: the sentinels, then any of the courses.
OptionPages ==
  { SentinelOptions \o SelectSeq(CourseOptions, LAMBDA o : o.value \in S) :
      S \in SUBSET CourseValues }

\* [(o.get_attribute('value'), o.text.strip()) for o in sel.options
\*    if o.get_attribute('value') and o.get_attribute('value').lower() not in ('0', '0_0')]
IsSelectable(o) == o.value # <<>> /\ Lower(o.value) \notin {<<"0">>, <<"0","_","0">>}
SelectableOptions(options) ==
  LET kept == SelectSeq(options, IsSelectable)
  IN  [i \in 1..Len(kept) |-> [value |-> kept[i].value, text |-> Strip(kept[i].text)]]

\* The texts lblEvaluationStatus may show, or its absence from the page.
StatusLabels ==
  { [present |-> FALSE, text |-> <<>>],
    [present |-> TRUE, text |-> <<>>],
    [present |-> TRUE, text |-> <<"P","e","n","d","i","n","g","!">>],
    [present |-> TRUE, text |-> <<" ","P","E","N","D","I","N","G","!">>],
    [present |-> TRUE, text |-> <<"C","o","m","p","l","e","t","e","d","!">>] }

\* status_ready of wait_until_not_pending
status_readyCaseSensitive(label) ==
  label.present /\ Strip(label.text) # <<"P","e","n","d","i","n","g","!">>

status_ready(label) ==
  label.present /\ Lower(Strip(label.text)) # <<"p","e","n","d","i","n","g","!">>

\* status_completed of wait_until_evaluation_completed
status_completed(label) ==
  label.present /\ Lower(Strip(label.text)) = <<"c","o","m","p","l","e","t","e","d","!">>

\* The Evaluation Status reads Pending
IsPending(label) ==
  label.present /\ Lower(Strip(label.text)) = <<"p","e","n","d","i","n","g","!">>

\* WebDriverWait(driver, timeout).until(predicate): the polls made until the
\* predicate holds or the timeout ends the wait, over the labels polls[1..].
PollSeqs == [1..MaxPolls -> StatusLabels]
\* hits[i]: the predicate holds of the label of poll i
ReadyHits(polls) == [i \in 1..Len(polls) |-> status_ready(polls[i])]
CompletedHits(polls) == [i \in 1..Len(polls) |-> status_completed(polls[i])]
PollsMade(hits) ==
  IF \E i \in 1..Len(hits) : hits[i]
  THEN CHOOSE i \in 1..Len(hits) : hits[i] /\ \A j \in 1..(i-1) : ~hits[j]
  ELSE Len(hits)
WaitUntil(hits) == \E i \in 1..Len(hits) : hits[i]
wait_until_not_pending(polls) == WaitUntil(ReadyHits(polls))
wait_until_evaluation_completed(polls) == WaitUntil(CompletedHits(polls))
PendingOnly(hits, polls) == \A i \in 1..PollsMade(hits) : IsPending(polls[i])

\* What a wait can yield over all the polls it may make: its result, and
\* whether every label it polled read Pending.
\* What the labels polled by a wait showed: a text other than Pending! in some
\* poll, else the label absent in some poll, else Pending! in every poll; and
\* for the Completed wait, Completed! in some poll or in none.
SeenNotPending(hits, polls) ==
  LET made == 1..PollsMade(hits)
  IN  IF \E i \in made : polls[i].present /\ ~IsPending(polls[i]) THEN "other"
      ELSE IF \E i \in made : ~polls[i].present THEN "absent"
      ELSE "pending"
SeenCompleted(hits, polls) ==
  IF \E i \in 1..PollsMade(hits) :
        polls[i].present
        /\ Lower(Strip(polls[i].text)) = <<"c","o","m","p","l","e","t","e","d","!">>
  THEN "completed" ELSE "not_completed"

NotPendingWaits ==
  { [result |-> wait_until_not_pending(polls),
     pending |-> PendingOnly(ReadyHits(polls), polls),
     seen |-> SeenNotPending(ReadyHits(polls), polls)] : polls \in PollSeqs }
CompletedWaits ==
  { [result |-> wait_until_evaluation_completed(polls),
     pending |-> PendingOnly(CompletedHits(polls), polls),
     seen |-> SeenCompleted(CompletedHits(polls), polls)] : polls \in PollSeqs }
\* The snapshots the option lists of the page give.
OptionReads == { SelectableOptions(options) : options \in OptionPages }

\* lblFacultyName of a loaded panel, and its placeholder
FacultyOf(c) == <<"D","r"," ">> \o c
PlaceholderText == <<"_","_","_"," ">>

\* faculty_ready of wait_for_evaluation_loaded
faculty_ready(text) ==
  LET t == Strip(text) IN t # <<>> /\ ~(CharSet(t) \subseteq {"_", " "})

\* What a postback may leave of the detail panel when sel is selected.
Details(sel) ==
  { [table |-> FALSE, faculty |-> <<>>],
    [table |-> TRUE, faculty |-> PlaceholderText] }
  \cup (IF sel \in CourseValues
        THEN {[table |-> TRUE, faculty |-> FacultyOf(sel)]}
        ELSE {})
DetailOf(p) == [table |-> p.table, faculty |-> p.faculty]

\* condition of js_set_select_and_postback
JsCondition(d) == d.table \/ faculty_ready(d.faculty)

\* wait_for_evaluation_loaded: the table is present and the faculty label ready
EvaluationLoaded(d) == d.table /\ faculty_ready(d.faculty)

\* The texts lblMsg may show after a submit, or its absence.
MsgLabels ==
  { [present |-> FALSE, text |-> <<>>],
    [present |-> TRUE, text |-> <<" ">>],
    [present |-> TRUE, text |-> <<"S","a","v","e","d">>],
    [present |-> TRUE, text |-> <<"U","n","e","x","p","e","c","t","e","d">>],
    [present |-> TRUE, text |-> <<"S","e","l","e","c","t"," ","E","x","p","e","c","t","e","d",
                                  " ","G","r","a","d","e">>] }

\* check_expected_grade_error_and_fix: the message asks for the expected grade
IsExpectedGradeMsg(label) ==
  LET msg == IF label.present THEN Strip(label.text) ELSE <<>>
      low == Lower(msg)
  IN  /\ msg # <<>>
      /\ Contains(low, <<"e","x","p","e","c","t","e","d">>)
      /\ \/ Contains(low, <<"g","r","a","d","e">>)
         \/ Contains(low, <<"e","x","p","e","c","t","e","d"," ","g","r","a","d","e">>)

\* What the test of the message yields over the labels the page may show.
MsgReads == { IsExpectedGradeMsg(label) : label \in MsgLabels }

\* The submit controls, in the order process_course prefers them.
NoneId == "None"
preferred ==
  << "ctl00_MainContainer_btnLabSubmit",
     "ctl00_MainContainer_btnTheorySubmit",
     "ctl00_MainContainer_btnTheoryTop" >>

\* The submit controls the evaluation form of a course has.
ButtonsOf(c) ==
  IF c = c101 THEN {"ctl00_MainContainer_btnTheorySubmit", "ctl00_MainContainer_btnTheoryTop"}
  ELSE IF c = c102 THEN {"ctl00_MainContainer_btnLabSubmit", "ctl00_MainContainer_btnTheoryTop"}
  ELSE {"ctl00_MainContainer_btnTheoryTop"}
\* Those of them whose click raises, by script and by the driver.
ClickRaisesOf(c) ==
  IF c = c102 THEN {"ctl00_MainContainer_btnLabSubmit"} ELSE {}
\* The controls of the form that a submit call can find and click, when the
\* form is rendered at that moment.
Clickable(c, rendered) == IF rendered THEN ButtonsOf(c) \ ClickRaisesOf(c) ELSE {}

\* submit_evaluation_and_wait: the first id of preferred_ids that is found and
\* clicked, with True; or None with False.
submit_evaluation_and_waitLast(preferred_ids, clickable) ==
  IF \E i \in 1..Len(preferred_ids) : preferred_ids[i] \in clickable
  THEN [id |-> preferred_ids[CHOOSE i \in 1..Len(preferred_ids) :
                               /\ preferred_ids[i] \in clickable
                               /\ \A j \in (i+1)..Len(preferred_ids) :
                                     preferred_ids[j] \notin clickable],
        ok |-> TRUE]
  ELSE [id |-> NoneId, ok |-> FALSE]

submit_evaluation_and_wait(preferred_ids, clickable) ==
  IF \E i \in 1..Len(preferred_ids) : preferred_ids[i] \in clickable
  THEN [id |-> preferred_ids[CHOOSE i \in 1..Len(preferred_ids) :
                               /\ preferred_ids[i] \in clickable
                               /\ \A j \in 1..(i-1) : preferred_ids[j] \notin clickable],
        ok |-> TRUE]
  ELSE [id |-> NoneId, ok |-> FALSE]

\* not r.get('submitted')
NotSubmittedEver(r) == TRUE

NotSubmitted(r) == ~("submitted" \in DOMAIN r /\ r.submitted)

\* [r['value'] for r in results if not r.get('submitted')]
RetryValuesNone(rs) == <<>>

RetryValues(rs) ==
  LET failed == SelectSeq(rs, NotSubmitted)
  IN  [i \in 1..Len(failed) |-> failed[i].value]

\* next((t for v, t in initial_options if v == val), '')
TextOf(options, val) ==
  IF \E i \in 1..Len(options) : options[i].value = val
  THEN options[CHOOSE i \in 1..Len(options) :
                 options[i].value = val /\ \A j \in 1..(i-1) : options[j].value # val].text
  ELSE <<>>

\* {r.get('value') for r in results if r.get('value')}
ValuesOf(rs) == {rs[i].value : i \in {j \in 1..Len(rs) : rs[j].value # <<>>}}

\* if val in processed_values: continue
ShouldSkipAfterFirst(val, processed) == processed # {}

ShouldSkip(val, processed) == val \in processed

\* for val, txt in options: if val in processed_values: continue
\* The position, from position from on, of the next option that is not skipped;
\* Len(options) + 1 when the loop ends without one.
NextToProcess(options, from, processed) ==
  IF \E k \in from..Len(options) : ~ShouldSkip(options[k].value, processed)
  THEN CHOOSE k \in from..Len(options) :
         /\ ~ShouldSkip(options[k].value, processed)
         /\ \A j \in from..(k-1) : ShouldSkip(options[j].value, processed)
  ELSE Len(options) + 1

(***************************************************************************)
(* main, process_all_courses and process_course.                           *)
(***************************************************************************)
orchVars == <<initial_options, processed_values, rnd, made_progress, idx, retry_values,
              new_retry, attempt, results, saved, pac_result, leftover, final_completed>>
callVars == <<wf, status, fixed, ev, trace>>
loginVars == <<has_credentials, login_attempt, site_visited, nav_clicks>>
driverVars == <<exit_code, quit_calls, grade_adopts, loginVars, exit_from>>
OtherSpecs == <<idleVars, mutVars>>

InitMain ==
  /\ IdleAtRest
  /\ MutatorAtRest
  /\ pc = "login" /\ exit_code = -1 /\ quit_calls = 0
  /\ has_credentials \in BOOLEAN /\ login_attempt = 0 /\ site_visited = FALSE
  /\ nav_clicks = 0
  /\ exit_from = "none"
  /\ initial_options = <<>> /\ processed_values = {} /\ rnd = 0
  /\ made_progress = FALSE /\ idx = 0 /\ retry_values = <<>> /\ new_retry = <<>>
  /\ attempt = 0 /\ results = <<>>
  /\ saved = [written |-> FALSE, records |-> <<>>]
  /\ pac_result = [kind |-> "none", records |-> <<>>]
  /\ leftover = <<>> /\ final_completed = FALSE
  /\ wf = "none" /\ status = <<>> /\ fixed = FALSE
  /\ page = BlankPage /\ grade_adopts \in BOOLEAN /\ only_pending = TRUE /\ seen = "none"
  /\ ev = NoEvent /\ trace = <<>>

\* ------------------------------------------------------------------ main
\* success = login_ucam(...): without credentials it returns False at once;
\* if not success: sys.exit(2)
\* sys.exit(code) inside the try of main raises SystemExit, and the finally
\* clause runs before main is left.
SysExitAtOnce(code) == IF code = 0 THEN "finally" ELSE "done"

SysExit(code) == "finally"

MainLogin ==
  /\ pc = "login"
  /\ IF has_credentials
     THEN /\ login_attempt' = 1
          /\ pc' = "login_try"
          /\ UNCHANGED <<exit_code, exit_from>>
     ELSE /\ pc' = SysExit(2)
          /\ exit_code' = 2
          /\ exit_from' = pc
          /\ UNCHANGED login_attempt
  /\ UNCHANGED <<quit_calls, grade_adopts, has_credentials, site_visited, nav_clicks>>
  /\ UNCHANGED <<orchVars, callVars, page, only_pending, seen, OtherSpecs>>

\* login_ucam: for attempt in range(1, max_retries + 1), a further attempt
LoginRetriesForEver(a) == TRUE

LoginRetries(a) == a # max_retries

\* One attempt of login_ucam: the page is fetched and the form sent; True when
\* the login page was left, the next attempt or False when anything raised.
LoginTry ==
  /\ pc = "login_try"
  /\ site_visited' = TRUE
  /\ \E left \in BOOLEAN :
       IF left
       THEN /\ pc' = "nav1" /\ login_attempt' = 0
            /\ UNCHANGED <<exit_code, exit_from>>
       ELSE IF LoginRetries(login_attempt)
            THEN /\ login_attempt' = login_attempt + 1
                 /\ UNCHANGED <<pc, exit_code, exit_from>>
            ELSE /\ pc' = SysExit(2) /\ login_attempt' = 0
                 /\ exit_code' = 2
                 /\ exit_from' = "login"
  /\ UNCHANGED <<quit_calls, grade_adopts, has_credentials, nav_clicks>>
  /\ UNCHANGED <<orchVars, callVars, page, only_pending, seen, OtherSpecs>>

\* sys.exit(3), sys.exit(4), sys.exit(5)
NavExitCodeSame(p) == 3

NavExitCode(p) == CASE p = "nav1" -> 3 [] p = "nav2" -> 4 [] OTHER -> 5

\* click_xpath: the wait and the click are in a try whose except clause
\* returns False; the call returns clicked and raises nothing.
click_xpath(clicked) == [value |-> clicked, raised |-> FALSE]

\* with_retries: 'return fn()' in a try; only an exception of fn leads to the
\* sleep and the next attempt, up to max_retries (3) attempts.
WithRetriesRepeats(r, a) == r.raised /\ a # max_retries

\* The three menu clicks: if not with_retries(click_xpath ...): sys.exit(3|4|5).
\* One step is one click_xpath call.
MainNav ==
  /\ pc \in {"nav1", "nav2", "nav3"}
  /\ \E clicked \in BOOLEAN :
       LET r == click_xpath(clicked)
       IN  IF WithRetriesRepeats(r, nav_clicks + 1)
           THEN /\ nav_clicks' = nav_clicks + 1
                /\ UNCHANGED <<pc, exit_code, exit_from>>
           ELSE IF ~r.raised /\ r.value
           THEN /\ pc' = CASE pc = "nav1" -> "nav2" [] pc = "nav2" -> "nav3"
                            [] OTHER -> "snapshot"
                /\ nav_clicks' = 0
                /\ UNCHANGED <<exit_code, exit_from>>
           ELSE /\ pc' = SysExit(NavExitCode(pc))
                /\ nav_clicks' = nav_clicks + 1
                /\ exit_code' = NavExitCode(pc)
                /\ exit_from' = pc
  /\ UNCHANGED <<quit_calls, grade_adopts, has_credentials, login_attempt, site_visited>>
  /\ UNCHANGED <<orchVars, callVars, page, only_pending, seen, OtherSpecs>>

\* --------------------------------------------------- process_all_courses
\* results = []; the snapshot initial_options; processed_values = set().
\* When the select cannot be found the except clause returns the empty results.
PacSnapshot ==
  /\ pc = "snapshot"
  /\ \E found \in BOOLEAN, options \in OptionReads :
       IF found
       THEN /\ initial_options' = options
            /\ pc' = "round_begin"
            /\ UNCHANGED pac_result
       ELSE /\ pac_result' = [kind |-> "list", records |-> results]
            /\ pc' = "main_check"
            /\ UNCHANGED initial_options
  /\ processed_values' = {}
  /\ rnd' = 0
  /\ UNCHANGED <<made_progress, idx, retry_values, new_retry, attempt, results, saved,
                 leftover, final_completed>>
  /\ UNCHANGED <<driverVars, callVars, page, only_pending, seen, OtherSpecs>>

\* for rnd in range(max_rounds): made_progress = False
RoundBegin ==
  /\ pc = "round_begin"
  /\ made_progress' = FALSE
  /\ idx' = 1
  /\ pc' = "round_item"
  /\ UNCHANGED <<initial_options, processed_values, rnd, retry_values, new_retry, attempt,
                 results, saved, pac_result, leftover, final_completed>>
  /\ UNCHANGED <<driverVars, callVars, page, only_pending, seen, OtherSpecs>>

\* results.append(res)
ReplaceRecord(rs, r) ==
  IF \E i \in 1..Len(rs) : rs[i].value = r.value
  THEN [i \in 1..Len(rs) |-> IF rs[i].value = r.value THEN r ELSE rs[i]]
  ELSE Append(rs, r)

AddRecord(rs, r) == Append(rs, r)

\* What the trace keeps of a finished call: the notes about faults and early
\* reads concern the running call only.
Summary(e) == [e EXCEPT !.faults = {}, !.unsettled = "none", !.early = {}, !.js_ok = FALSE,
                       !.found = {}]

\* process_course's first line: the dict status
NewStatus(val, txt) == [value |-> val, text |-> txt, start |-> "utcnow"]
NewEvent(val, caller) == [NoEvent EXCEPT !.value = val, !.caller = caller]

\* res = process_course(driver, wait, val, txt)
RoundCall ==
  /\ pc = "round_item"
  /\ wf = "none"
  /\ LET k == NextToProcess(initial_options, idx, processed_values)
     IN  /\ k <= Len(initial_options)
         /\ idx' = k
         /\ status' = NewStatus(initial_options[k].value, initial_options[k].text)
         /\ ev' = NewEvent(initial_options[k].value, "round")
  /\ wf' = "select"
  /\ pc' = "round_after"
  /\ UNCHANGED <<initial_options, processed_values, rnd, made_progress, retry_values,
                 new_retry, attempt, results, saved, pac_result, leftover, final_completed>>
  /\ UNCHANGED <<fixed, trace, driverVars, page, only_pending, seen, OtherSpecs>>

\* processed_values.add(val), whatever the record res says
MarkProcessedWhenSubmitted(processed, val, res) ==
  IF "submitted" \in DOMAIN res /\ res.submitted THEN processed \cup {val} ELSE processed

MarkProcessed(processed, val, res) == processed \cup {val}

\* results.append(res); processed_values.add(val); made_progress = True; the
\* quiescence wait in a try
RoundAfter ==
  /\ pc = "round_after"
  /\ wf = "done"
  /\ results' = AddRecord(results, status)
  /\ processed_values' = MarkProcessed(processed_values, initial_options[idx].value, status)
  /\ made_progress' = TRUE
  /\ idx' = idx + 1
  /\ pc' = "round_item"
  /\ wf' = "none" /\ status' = <<>> /\ fixed' = FALSE
  /\ trace' = Append(trace, Summary(ev)) /\ ev' = NoEvent
  /\ UNCHANGED <<initial_options, rnd, retry_values, new_retry, attempt, saved, pac_result,
                 leftover, final_completed>>
  /\ UNCHANGED <<driverVars, page, only_pending, seen, OtherSpecs>>

\* After the for loop of a round: break when wait_until_not_pending, break when
\* not made_progress, else the next round.
RoundEnd ==
  /\ pc = "round_item"
  /\ NextToProcess(initial_options, idx, processed_values) > Len(initial_options)
  /\ \E w \in NotPendingWaits :
       /\ only_pending' = (only_pending /\ w.pending)
       /\ seen' = w.seen
       /\ IF w.result \/ ~made_progress \/ rnd + 1 >= max_rounds
          THEN pc' = "completed_check" /\ UNCHANGED rnd
          ELSE pc' = "round_begin" /\ rnd' = rnd + 1
  /\ UNCHANGED <<initial_options, processed_values, made_progress, idx, retry_values,
                 new_retry, attempt, results, saved, pac_result, leftover, final_completed>>
  /\ UNCHANGED <<driverVars, callVars, page, OtherSpecs>>

\* if not wait_until_evaluation_completed(...): retry_values = [...]
CompletedCheck ==
  /\ pc = "completed_check"
  /\ \E w \in CompletedWaits :
       /\ only_pending' = (only_pending /\ w.pending)
       /\ seen' = w.seen
       /\ IF w.result
          THEN pc' = "save" /\ UNCHANGED retry_values
          ELSE pc' = "retry_begin" /\ retry_values' = RetryValues(results)
  /\ attempt' = 0
  /\ UNCHANGED <<initial_options, processed_values, rnd, made_progress, idx, new_retry,
                 results, saved, pac_result, leftover, final_completed>>
  /\ UNCHANGED <<driverVars, callVars, page, OtherSpecs>>

\* for attempt in range(extra_attempts): if not retry_values: break
RecoveryGoesOnUnbounded(a, retry) == retry # <<>>

RecoveryGoesOn(a, retry) == a < extra_attempts /\ retry # <<>>

RetryBegin ==
  /\ pc = "retry_begin"
  /\ IF RecoveryGoesOn(attempt, retry_values)
     THEN pc' = "retry_item" /\ new_retry' = <<>> /\ idx' = 1
     ELSE pc' = "save" /\ UNCHANGED <<new_retry, idx>>
  /\ UNCHANGED <<initial_options, processed_values, rnd, made_progress, retry_values,
                 attempt, results, saved, pac_result, leftover, final_completed>>
  /\ UNCHANGED <<driverVars, callVars, page, only_pending, seen, OtherSpecs>>

\* res = process_course(driver, wait, val, text)
RetryCall ==
  /\ pc = "retry_item"
  /\ idx <= Len(retry_values)
  /\ wf = "none"
  /\ status' = NewStatus(retry_values[idx], TextOf(initial_options, retry_values[idx]))
  /\ ev' = NewEvent(retry_values[idx], "recovery")
  /\ wf' = "select"
  /\ pc' = "retry_after"
  /\ UNCHANGED <<fixed, trace, orchVars, driverVars, page, only_pending, seen, OtherSpecs>>

\* if not res.get('submitted'): new_retry.append(val)
NewRetryKeepsAll(retry, res, val) == Append(retry, val)

NewRetry(retry, res, val) == IF NotSubmitted(res) THEN Append(retry, val) ELSE retry

\* results.append(res); if not res.get('submitted'): new_retry.append(val)
RetryAfter ==
  /\ pc = "retry_after"
  /\ wf = "done"
  /\ results' = AddRecord(results, status)
  /\ new_retry' = NewRetry(new_retry, status, retry_values[idx])
  /\ idx' = idx + 1
  /\ pc' = "retry_item"
  /\ wf' = "none" /\ status' = <<>> /\ fixed' = FALSE
  /\ trace' = Append(trace, Summary(ev)) /\ ev' = NoEvent
  /\ UNCHANGED <<initial_options, processed_values, rnd, made_progress, retry_values,
                 attempt, saved, pac_result, leftover, final_completed>>
  /\ UNCHANGED <<driverVars, page, only_pending, seen, OtherSpecs>>

\* retry_values = new_retry, and the next attempt
RetryPassEnd ==
  /\ pc = "retry_item"
  /\ idx > Len(retry_values)
  /\ retry_values' = new_retry
  /\ attempt' = attempt + 1
  /\ pc' = "retry_begin"
  /\ UNCHANGED <<initial_options, processed_values, rnd, made_progress, idx, new_retry,
                 results, saved, pac_result, leftover, final_completed>>
  /\ UNCHANGED <<driverVars, callVars, page, only_pending, seen, OtherSpecs>>

\* json.dump(results, f, ...) in a try; return results. The loop variables of
\* process_all_courses end with the call.
PacSave ==
  /\ pc = "save"
  /\ \E written \in BOOLEAN :
       saved' = IF written THEN [written |-> TRUE, records |-> results] ELSE saved
  /\ pac_result' = [kind |-> "list", records |-> results]
  /\ pc' = "main_check"
  /\ processed_values' = {} /\ rnd' = 0 /\ made_progress' = FALSE /\ idx' = 0
  /\ retry_values' = <<>> /\ new_retry' = <<>> /\ attempt' = 0
  /\ UNCHANGED <<initial_options, results, leftover, final_completed>>
  /\ UNCHANGED <<driverVars, callVars, page, only_pending, seen, OtherSpecs>>

\* ------------------------------------------------- main, after the main pass
\* if not wait_until_evaluation_completed(...): processed_values from results,
\* the options read again (in a try), and the leftover loop over them
MainCheck ==
  /\ pc = "main_check"
  /\ \E w \in CompletedWaits, found \in BOOLEAN, options \in OptionReads :
       /\ only_pending' = (only_pending /\ w.pending)
       /\ IF w.result
          THEN /\ pc' = "final_wait"
               /\ UNCHANGED <<processed_values, leftover, idx>>
          ELSE /\ processed_values' = ValuesOf(results)
               /\ IF found
                  THEN /\ leftover' = options
                       /\ idx' = 1
                       /\ pc' = "leftover_item"
                  ELSE /\ pc' = "final_wait"
                       /\ UNCHANGED <<leftover, idx>>
  /\ UNCHANGED <<initial_options, rnd, made_progress, retry_values, new_retry, attempt,
                 results, saved, pac_result, final_completed>>
  /\ UNCHANGED <<driverVars, callVars, page, seen, OtherSpecs>>

\* res = process_course(driver, wait, val, txt)
LeftoverCall ==
  /\ pc = "leftover_item"
  /\ wf = "none"
  /\ LET k == NextToProcess(leftover, idx, processed_values)
     IN  /\ k <= Len(leftover)
         /\ idx' = k
         /\ status' = NewStatus(leftover[k].value, leftover[k].text)
         /\ ev' = NewEvent(leftover[k].value, "leftover")
  /\ wf' = "select"
  /\ pc' = "leftover_after"
  /\ UNCHANGED <<initial_options, processed_values, rnd, made_progress, retry_values,
                 new_retry, attempt, results, saved, pac_result, leftover, final_completed>>
  /\ UNCHANGED <<fixed, trace, driverVars, page, only_pending, seen, OtherSpecs>>

\* results.append(res); processed_values.add(val)
LeftoverAfter ==
  /\ pc = "leftover_after"
  /\ wf = "done"
  /\ results' = AddRecord(results, status)
  /\ processed_values' = processed_values \cup {leftover[idx].value}
  /\ idx' = idx + 1
  /\ pc' = "leftover_item"
  /\ wf' = "none" /\ status' = <<>> /\ fixed' = FALSE
  /\ trace' = Append(trace, Summary(ev)) /\ ev' = NoEvent
  /\ UNCHANGED <<initial_options, rnd, made_progress, retry_values, new_retry, attempt,
                 saved, pac_result, leftover, final_completed>>
  /\ UNCHANGED <<driverVars, page, only_pending, seen, OtherSpecs>>

\* The end of the leftover loop; its variables are not used again.
LeftoverEnd ==
  /\ pc = "leftover_item"
  /\ NextToProcess(leftover, idx, processed_values) > Len(leftover)
  /\ pc' = "final_wait"
  /\ leftover' = <<>> /\ idx' = 0 /\ processed_values' = {}
  /\ UNCHANGED <<initial_options, rnd, made_progress, retry_values, new_retry, attempt,
                 results, saved, pac_result, final_completed>>
  /\ UNCHANGED <<driverVars, callVars, page, only_pending, seen, OtherSpecs>>

\* sys.exit(0), after the final status wait whose result is only logged
ExitCodeByStatus(completed) == IF completed THEN 0 ELSE 1

ExitCodeAfterRun(completed) == 0

\* if not wait_until_evaluation_completed(driver, wait, timeout=20): warning;
\* then sys.exit(0)
FinalWait ==
  /\ pc = "final_wait"
  /\ \E w \in CompletedWaits :
       /\ only_pending' = (only_pending /\ w.pending)
       /\ final_completed' = w.result
       /\ exit_code' = ExitCodeAfterRun(w.result)
  /\ exit_from' = pc
  /\ pc' = SysExit(0)
  /\ UNCHANGED <<initial_options, processed_values, rnd, made_progress, idx, retry_values,
                 new_retry, attempt, results, saved, pac_result, leftover>>
  /\ UNCHANGED <<quit_calls, grade_adopts, loginVars, callVars, page, seen, OtherSpecs>>

\* finally: driver.quit()
MainQuit ==
  /\ pc = "finally"
  /\ quit_calls' = quit_calls + 1
  /\ pc' = "done"
  /\ UNCHANGED <<exit_code, grade_adopts, loginVars, exit_from>>
  /\ UNCHANGED <<orchVars, callVars, page, only_pending, seen, OtherSpecs>>

\* ---------------------------------------------------------- process_course
CallFrame == UNCHANGED <<pc, orchVars, driverVars, trace, only_pending, seen, OtherSpecs>>

\* The selection that no wait has followed when process_course goes on to the
\* load wait: js_set_select_and_postback waits after its postback call only,
\* and nothing waits after the fallback Select.select_by_value.
UnsettledAfterSelect(step, js_ok, fb) ==
  IF step = "postback_raises" \/ (~js_ok /\ fb) THEN "select" ELSE "none"

\* The read of a step, added to the early reads when an action is unsettled.
EarlyReads(e, what) == IF e.unsettled # "none" THEN e.early \cup {what} ELSE e.early

\* The value of the course select after el.value = value and the postback:
\* the value asked for when the page adopts it, else the one it had.
SelectedAfter(step, takes, value, before) ==
  IF step \in {"postback_raises", "ok"} /\ takes THEN value ELSE before

\* What js_set_select_and_postback returns: True when its wait condition on the
\* panel is met; the select is not read.
JsSetResult(step, d, selected, value) == step = "ok" /\ JsCondition(d)

\* js_set_select_and_postback, and Select.select_by_value when it fails.
\* step: how far js_set_select_and_postback gets; takes: the page adopts the
\* value set; d: the panel the postback leaves; fb: the fallback selection
\* takes effect.
PcSelect ==
  /\ wf = "select"
  /\ \E step \in {"absent", "set_raises", "postback_raises", "ok"},
        takes \in BOOLEAN, fb \in BOOLEAN :
       LET sel1 == SelectedAfter(step, takes, status.value, page.sel)
       IN  \E d \in Details(sel1) \cup {DetailOf(page)} :
             LET d1    == IF step = "ok" THEN d ELSE DetailOf(page)
                 js_ok == JsSetResult(step, d1, sel1, status.value)
                 sel2  == IF ~js_ok /\ fb THEN status.value ELSE sel1
             IN  /\ page' = [sel |-> sel2, table |-> d1.table, faculty |-> d1.faculty]
                 /\ ev' = [ev EXCEPT
                             !.js_ok = js_ok,
                             !.faults = IF js_ok THEN @ ELSE @ \cup {"select"},
                             !.unsettled = UnsettledAfterSelect(step, js_ok, fb)]
  /\ wf' = "load"
  /\ UNCHANGED <<status, fixed>>
  /\ CallFrame

\* status['error'] = 'evaluation_load_timeout'; return status
LoadTimeoutRecordSubmitted(st) ==
  st @@ [error |-> "evaluation_load_timeout", submitted |-> FALSE]

LoadTimeoutRecord(st) == st @@ [error |-> "evaluation_load_timeout"]

\* if not wait_for_evaluation_loaded(driver, wait, timeout=25):
\*     status['error'] = 'evaluation_load_timeout'; return status
PcLoad ==
  /\ wf = "load"
  /\ \E d \in Details(page.sel) \cup {DetailOf(page)} :
       /\ page' = [sel |-> page.sel, table |-> d.table, faculty |-> d.faculty]
       /\ IF EvaluationLoaded(d)
          THEN /\ wf' = "grade"
               /\ ev' = [ev EXCEPT !.loaded = TRUE, !.unsettled = "none"]
               /\ UNCHANGED status
          ELSE /\ wf' = "done"
               /\ status' = LoadTimeoutRecord(status)
               /\ ev' = [ev EXCEPT !.faults = @ \cup {"load"}, !.unsettled = "none"]
  /\ UNCHANGED fixed
  /\ CallFrame

\* The panel scoped setter, then the general one; the value read back.
\* Within a run the page adopts the first setting for every course or for none.
GradeRead(set_ok) == IF set_ok THEN <<"A">> ELSE <<"0">>

PcGrade ==
  /\ wf = "grade"
  /\ \E panel_ok \in BOOLEAN, general_ok \in BOOLEAN :
       LET set_ok == IF panel_ok THEN TRUE ELSE general_ok
       IN  /\ set_ok = grade_adopts
           /\ status' = status @@ [expected_set_initial |-> set_ok,
                                   selected_expected_grade |-> GradeRead(set_ok)]
  /\ ev' = [ev EXCEPT !.steps = @ + 1,
                      !.faults = IF grade_adopts THEN @ ELSE @ \cup {"grade"}]
  /\ wf' = "fill"
  /\ UNCHANGED <<fixed, page>>
  /\ CallFrame

\* The value="5" radios of the form of a course: already selected or not, and
\* whether acting on the radio raises.
RadiosOf(c) ==
  IF c = c101
  THEN << [selected |-> FALSE, raises |-> FALSE], [selected |-> TRUE, raises |-> FALSE] >>
  ELSE << [selected |-> FALSE, raises |-> FALSE], [selected |-> FALSE, raises |-> TRUE],
          [selected |-> FALSE, raises |-> FALSE] >>

\* fill_strongly_agree_in_table: clicked counts the radios acted on without an
\* exception
fill_strongly_agree_in_table(radios) ==
  Cardinality({i \in 1..Len(radios) : ~radios[i].raises})

\* The comment textarea of the form of a course: finding or clearing it raises
\* for the forms that have none, and the exception is passed over.
ClearCommentRaises(c) == c # c101

\* fill_strongly_agree_in_table clicks a radio that is not selected, and
\* returns without a wait
RadioClicked(radios) ==
  \E i \in 1..Len(radios) : ~radios[i].selected /\ ~radios[i].raises

\* clicked = fill_strongly_agree_in_table(...); the comment textarea cleared
PcFill ==
  /\ wf = "fill"
  /\ status' = status @@ [radios_clicked |-> fill_strongly_agree_in_table(RadiosOf(status.value))]
  /\ ev' = [ev EXCEPT !.steps = @ + 1,
                      !.faults = @ \cup (IF \E i \in 1..Len(RadiosOf(status.value)) :
                                                RadiosOf(status.value)[i].raises
                                          THEN {"fill"} ELSE {})
                                   \cup (IF ClearCommentRaises(status.value)
                                          THEN {"comment"} ELSE {}),
                      !.unsettled = IF RadioClicked(RadiosOf(status.value))
                                    THEN "radio" ELSE @]
  /\ wf' = "submit"
  /\ UNCHANGED <<fixed, page>>
  /\ CallFrame

\* if not ok: status['submit_error'] = ...  else: (the message check)
AfterSubmitRaise(ok) == IF ok THEN "check" ELSE "raised"

AfterSubmit(ok) == IF ok THEN "check" ELSE "end"

\* status['submitted'] = bool(ok); status['clicked_submit_id'] = clicked_id;
\* if not ok: status['submit_error'] = 'no_submit_button_found'
SubmitRecordNoError(st, r) == st @@ [submitted |-> r.ok, clicked_submit_id |-> r.id]

SubmitRecord(st, r) ==
  IF r.ok
  THEN st @@ [submitted |-> TRUE, clicked_submit_id |-> r.id]
  ELSE st @@ [submitted |-> FALSE, clicked_submit_id |-> r.id,
              submit_error |-> "no_submit_button_found"]

\* clicked_id, ok = submit_evaluation_and_wait(...); submitted, clicked_submit_id,
\* and submit_error when no control was clicked
PcSubmit ==
  /\ wf = "submit"
  /\ \E rendered \in BOOLEAN :
       LET r == submit_evaluation_and_wait(preferred, Clickable(status.value, rendered))
       IN  /\ status' = SubmitRecord(status, r)
           /\ ev' = [ev EXCEPT !.steps = @ + 1, !.submits = @ + 1,
                               !.found = IF rendered THEN ButtonsOf(status.value) ELSE {},
                               !.clicks = IF r.ok THEN @ + 1 ELSE @,
                               !.faults = IF r.ok THEN @ ELSE @ \cup {"submit"},
                               !.unsettled = "none",
                               !.early = EarlyReads(ev, "submit_controls")]
           /\ wf' = AfterSubmit(r.ok)
  /\ UNCHANGED <<fixed, page>>
  /\ CallFrame

\* check_expected_grade_error_and_fix: True when the message asks for the
\* expected grade and one of the two setters then verified the value
check_expected_grade_error_and_fix(asks, panel_ok, general_ok) ==
  asks /\ (IF panel_ok THEN TRUE ELSE general_ok)

\* if fixed: (resubmit once)  else: status['resubmit_after_fix'] = False
ResubmitAlways(is_fixed) == TRUE

ResubmitWhen(is_fixed) == is_fixed

\* fixed = check_expected_grade_error_and_fix(...)
PcCheck ==
  /\ wf = "check"
  /\ \E asks \in MsgReads, panel_ok \in BOOLEAN, general_ok \in BOOLEAN :
       LET f == check_expected_grade_error_and_fix(asks, panel_ok, general_ok)
       IN  /\ fixed' = f
           /\ ev' = [ev EXCEPT !.msg = asks, !.fix = f,
                               !.faults = IF asks /\ ~f THEN @ \cup {"check"} ELSE @,
                               !.early = EarlyReads(ev, "message")]
           /\ IF ResubmitWhen(f)
              THEN wf' = "resubmit" /\ UNCHANGED status
              ELSE wf' = "end" /\ status' = status @@ [resubmit_after_fix |-> FALSE]
  /\ UNCHANGED page
  /\ CallFrame

\* clicked_id2, ok2 = submit_evaluation_and_wait(...): resubmit_after_fix,
\* resubmit_clicked_id
PcResubmit ==
  /\ wf = "resubmit"
  /\ \E rendered \in BOOLEAN :
       LET r == submit_evaluation_and_wait(preferred, Clickable(status.value, rendered))
       IN  /\ status' = status @@ [resubmit_after_fix |-> r.ok, resubmit_clicked_id |-> r.id]
           /\ ev' = [ev EXCEPT !.submits = @ + 1, !.clicks = IF r.ok THEN @ + 1 ELSE @,
                               !.found = IF rendered THEN ButtonsOf(status.value) ELSE {},
                               !.faults = IF r.ok THEN @ ELSE @ \cup {"resubmit"},
                               !.early = EarlyReads(ev, "submit_controls")]
  /\ wf' = "end"
  /\ UNCHANGED <<fixed, page>>
  /\ CallFrame

\* status['end'] = datetime.utcnow().isoformat(); return status
PcEnd ==
  /\ wf = "end"
  /\ status' = status @@ [end |-> "utcnow"]
  /\ wf' = "done"
  /\ UNCHANGED <<fixed, page, ev>>
  /\ CallFrame

Next ==
  \/ MainLogin \/ LoginTry \/ MainNav \/ PacSnapshot
  \/ RoundBegin \/ RoundCall \/ RoundAfter \/ RoundEnd
  \/ CompletedCheck \/ RetryBegin \/ RetryCall \/ RetryAfter \/ RetryPassEnd \/ PacSave
  \/ MainCheck \/ LeftoverCall \/ LeftoverAfter \/ LeftoverEnd
  \/ FinalWait \/ MainQuit
  \/ PcSelect \/ PcLoad \/ PcGrade \/ PcFill \/ PcSubmit \/ PcCheck \/ PcResubmit \/ PcEnd

Spec == InitMain /\ [][Next]_vars

(***************************************************************************)
(* Properties of the verified mutators, under SpecMutator.                 *)
(***************************************************************************)
\* C2: a verified mutator returns success only if, in the attempt it returns
\* from, the control was re-resolved and read after that attempt's mutation and
\* settle wait, and the value read was the requested one; what the general
\* mutator returns is that value. This is so for every interleaving of
\* replacements of the control by the page and of failing strategies.
C2_NoFalsePositive ==
  (m_pc = "returned" /\ m_result.ok) =>
     /\ m_result.val = m_value
     /\ m_read.attempt = m_attempt
     /\ m_read.val = m_value
     /\ m_settled = m_attempt
     /\ m_attempt >= 1

\* A success in a later attempt, the page having other values than the target.
C2_Witness ==
  /\ m_pc = "returned" /\ m_result.ok
  /\ m_attempt >= 2
  /\ m_fn = "panel"
  /\ g_options = PlainOptions

(***************************************************************************)
(* Properties of wait_for_ajax_and_postbacks, under SpecIdle.              *)
(***************************************************************************)
\* C4: when the page has neither window.jQuery nor the PageRequestManager and
\* the script runs, the wait returns True on its first poll, whatever the
\* timeout (0 included): it makes no second poll and raises no timeout.
C4_FailOpen ==
  (~hasJQuery /\ ~hasPRM /\ ~w_any_raised /\ w_polls >= 1) =>
     (w_pc = "returned" /\ w_polls = 1)

\* The first poll of a page without either capability, with timeout 0.
C4_Witness ==
  /\ ~hasJQuery /\ ~hasPRM /\ ~w_any_raised
  /\ w_polls = 1 /\ w_timeout = 0 /\ w_pc = "returned"

\* C5: when execute_script raises on every poll, the wait ends by returning
\* True: a query that cannot be made never ends in the timeout exception.
C5_QueryFailureIsIdle ==
  (w_all_raised /\ w_polls >= 1 /\ w_pc \in {"returned", "raised"}) => w_pc = "returned"

\* The wait has ended in the timeout exception, every poll having raised.
C5_Witness ==
  w_all_raised /\ w_polls >= 1 /\ w_pc = "raised"

(***************************************************************************)
(* Properties of main, process_all_courses and process_course, under Spec. *)
(***************************************************************************)
\* process_all_courses has returned, its snapshot taken.
PacReturned == pac_result.kind # "none"
SnapshotValues == {initial_options[i].value : i \in 1..Len(initial_options)}

\* The process_course calls begun so far for course c, the running one included.
RunsOf(c) ==
  Cardinality({i \in 1..Len(trace) : trace[i].value = c})
    + (IF wf # "none" /\ ev.value = c THEN 1 ELSE 0)

\* The finished calls that caller made for course c.
RunsBy(caller, c) ==
  Cardinality({i \in 1..Len(trace) : trace[i].value = c /\ trace[i].caller = caller})

\* C1: when process_all_courses returns with its snapshot taken, every course
\* of the snapshot has at least one record of that value in the list returned,
\* whatever the outcomes of the calls and the status label read.
C1_Coverage ==
  PacReturned =>
    \A c \in SnapshotValues :
      \E j \in 1..Len(pac_result.records) : pac_result.records[j].value = c

\* process_all_courses has returned over two courses, the first of which timed
\* out at load and the second of which found no submit control.
C1_Witness ==
  /\ pc = "main_check" /\ PacReturned
  /\ Len(initial_options) = 2
  /\ Len(pac_result.records) >= 2
  /\ "error" \in DOMAIN pac_result.records[1]
  /\ NotSubmitted(pac_result.records[2])

\* C3: over a whole run (rounds, recovery passes and the leftover pass of main)
\* no course is the subject of more than max_rounds + extra_attempts
\* process_course calls.
C3_PassBound ==
  \A c \in CourseValues : RunsOf(c) <= max_rounds + extra_attempts

\* A finished run in which a course went through a round and both recovery
\* passes, and the leftover pass ran a course too.
C3_Witness ==
  /\ pc = "done"
  /\ \E c \in CourseValues : RunsBy("round", c) = 1 /\ RunsBy("recovery", c) = 2
  /\ \E i \in 1..Len(trace) : trace[i].caller = "leftover"

\* C8: a call whose detail panel did not load returns a record with
\* error = 'evaluation_load_timeout' and no 'submitted' key and has done none of
\* the later steps (grade, radios, submit); and the round loop, given such a
\* record, appends it and moves on to the next course of the snapshot.
C8_LoadTimeoutRecords ==
  \A i \in 1..Len(trace) :
    ~trace[i].loaded =>
       /\ "error" \in DOMAIN results[i]
       /\ results[i].error = "evaluation_load_timeout"
       /\ "submitted" \notin DOMAIN results[i]
       /\ trace[i].steps = 0 /\ trace[i].submits = 0 /\ trace[i].clicks = 0

C8_RoundGoesOn ==
  (pc = "round_after" /\ wf = "done" /\ ~ev.loaded) =>
     /\ results' = Append(results, status)
     /\ pc' = "round_item"
     /\ idx' = idx + 1
     /\ (idx < Len(initial_options) =>
           NextToProcess(initial_options, idx', processed_values') = idx + 1)

C8_LoadTimeout == []C8_LoadTimeoutRecords /\ [][C8_RoundGoesOn]_vars

\* The first course of two timed out at load and the second was then run.
C8_Witness ==
  /\ Len(initial_options) = 2
  /\ Len(trace) = 2
  /\ trace[1].caller = "round" /\ ~trace[1].loaded
  /\ trace[2].caller = "round" /\ trace[2].value = initial_options[2].value
  /\ "error" \in DOMAIN results[1]

\* The first call made for course c, and the position of a call in the trace.
FirstRun(c) ==
  CHOOSE i \in 1..Len(trace) :
    trace[i].value = c /\ \A j \in 1..(i-1) : trace[j].value # c

\* The run is over, process_all_courses having returned with a snapshot in
\* which the first call of every course loaded the panel and clicked a submit
\* control, no expected grade message being read after the click.
AllFirstRunsClean ==
  /\ pc = "done" /\ PacReturned
  /\ initial_options # <<>>
  /\ \A c \in SnapshotValues :
       /\ \E i \in 1..Len(trace) : trace[i].value = c
       /\ trace[FirstRun(c)].loaded
       /\ trace[FirstRun(c)].clicks >= 1
       /\ ~trace[FirstRun(c)].msg

\* The k-th record is the one clean record of the k-th course of the snapshot.
CleanRecordAt(k) ==
  /\ results[k].value = initial_options[k].value
  /\ "submitted" \in DOMAIN results[k] /\ results[k].submitted
  /\ "resubmit_after_fix" \in DOMAIN results[k] /\ ~results[k].resubmit_after_fix

\* C6, as stated: when the first call of every snapshot course loads, clicks
\* and reads no expected grade message, the final results hold exactly one
\* record per snapshot course, submitted and not resubmitted, and nothing
\* else: no round, recovery pass or leftover pass adds a record.
C6_OneRecordEach ==
  AllFirstRunsClean =>
    /\ Len(results) = Len(initial_options)
    /\ \A k \in 1..Len(initial_options) : CleanRecordAt(k)

\* C6, amended: under the same hypothesis the final results begin with exactly
\* one record per snapshot course, submitted and not resubmitted; every further
\* record comes from the leftover pass of main and belongs to a course that the
\* page listed then and that was not in the snapshot.
C6_OneRecordPerSnapshotCourse ==
  AllFirstRunsClean =>
    /\ Len(results) >= Len(initial_options)
    /\ \A k \in 1..Len(initial_options) : CleanRecordAt(k)
    /\ \A k \in (Len(initial_options) + 1)..Len(results) :
         /\ trace[k].caller = "leftover"
         /\ results[k].value \notin SnapshotValues

\* Two courses, both clean at their first call, the status never Completed.
C6_Witness ==
  /\ AllFirstRunsClean
  /\ Len(initial_options) = 2
  /\ Len(results) = 2
  /\ ~final_completed

\* The finished calls: trace[i] tells what happened in the call of results[i].
\* C7, as stated: a call makes at most two submit steps; the second is made
\* exactly when the first clicked a control, the expected grade message was
\* read and the correction was verified, and then the record has submitted
\* and resubmit_after_fix true and the second step made exactly one click;
\* with no message there is no second step and resubmit_after_fix is false.
C7_SingleCorrectionCycle ==
  \A i \in 1..Len(trace) :
    LET e == trace[i]
        r == results[i]
    IN  /\ e.submits <= 2
        /\ (e.submits = 2) = (e.clicks >= 1 /\ e.msg /\ e.fix)
        /\ e.submits = 2 =>
             /\ r.submitted /\ r.resubmit_after_fix
             /\ e.clicks = 2
        /\ (e.clicks >= 1 /\ ~e.msg) =>
             /\ e.submits = 1
             /\ ~r.resubmit_after_fix

\* C7, amended: as stated, but the second submit step may find no control to
\* click: resubmit_after_fix is true exactly when the second step clicked one,
\* and the second step makes at most one click.
C7_SingleCorrectionAttempt ==
  \A i \in 1..Len(trace) :
    LET e == trace[i]
        r == results[i]
    IN  /\ e.submits <= 2
        /\ (e.submits = 2) = (e.clicks >= 1 /\ e.msg /\ e.fix)
        /\ e.submits = 2 =>
             /\ r.submitted
             /\ e.clicks \in {1, 2}
             /\ r.resubmit_after_fix = (e.clicks = 2)
        /\ (e.clicks >= 1 /\ ~e.msg) =>
             /\ e.submits = 1
             /\ ~r.resubmit_after_fix

\* A call whose correction was verified and whose second submit step clicked.
C7_Witness ==
  \E i \in 1..Len(trace) :
    /\ trace[i].submits = 2 /\ trace[i].clicks = 2 /\ trace[i].fix
    /\ results[i].submitted /\ results[i].resubmit_after_fix
    /\ results[i].resubmit_clicked_id # NoneId

\* Course c of the snapshot has no record with submitted true.
NeverSubmitted(c) ==
  /\ c \in SnapshotValues
  /\ \A i \in 1..Len(results) : results[i].value = c => NotSubmitted(results[i])

C10_BooleanForExitCode ==
  (pc = "done" /\ PacReturned) =>
    /\ pac_result.kind = "bool"
    /\ (exit_code = 0) = final_completed

\* C10, amended: process_all_courses returns the list of records it has
\* accumulated, which main extends in its leftover pass; main reads the final
\* status itself, only logs it, and exits with code 0 whether or not the
\* status is Completed.
C10_ListAndExitZero ==
  (pc = "done" /\ PacReturned) =>
    /\ pac_result.kind = "list"
    /\ Len(pac_result.records) <= Len(results)
    /\ SubSeq(results, 1, Len(pac_result.records)) = pac_result.records
    /\ exit_code = 0

\* A run that ended with code 0 although the last status wait did not see
\* Completed, a record of the list returned not being submitted.
C10_Witness ==
  /\ pc = "done" /\ PacReturned
  /\ ~final_completed /\ exit_code = 0
  /\ Len(pac_result.records) >= 1
  /\ NotSubmitted(pac_result.records[1])

\* C11: when the run has ended, the file written by process_all_courses holds
\* every record of the results list (those of the rounds, of the recovery
\* passes and of the leftover pass of main), in processing order.
C11_WholeLogPersisted ==
  (pc = "done" /\ saved.written) => saved.records = results

\* The run has ended with a record of the leftover pass that the file, written
\* before that pass, does not hold.
C11_Witness ==
  /\ pc = "done" /\ saved.written
  /\ Len(results) > Len(saved.records)
  /\ trace[Len(trace)].caller = "leftover"
  /\ saved.records = SubSeq(results, 1, Len(saved.records))

\* C16: every record process_course has returned has a start and an end
\* timestamp, whichever return path was taken.
C16_StartAndEnd ==
  \A i \in 1..Len(results) :
    "start" \in DOMAIN results[i] /\ "end" \in DOMAIN results[i]

\* A record returned at the load timeout: the error and no end timestamp.
C16_Witness ==
  \E i \in 1..Len(results) :
    /\ "error" \in DOMAIN results[i]
    /\ results[i].error = "evaluation_load_timeout"
    /\ "start" \in DOMAIN results[i]
    /\ "end" \notin DOMAIN results[i]

\* C17: every step leaves the records already in results as they are and adds
\* at most one record, at the end; a course run again gets a further record;
\* the records are in the order in which the calls were made.
C17_InCallOrder ==
  /\ Len(results) = Len(trace)
  /\ \A i \in 1..Len(results) : results[i].value = trace[i].value

C17_PrefixKept ==
  /\ Len(results') \in {Len(results), Len(results) + 1}
  /\ SubSeq(results', 1, Len(results)) = results
  /\ (Len(results') = Len(results) + 1 =>
        /\ wf = "done" /\ results'[Len(results')] = status
        /\ Len(trace') = Len(trace) + 1
        /\ trace'[Len(trace')].value = status.value)

C17_AppendOnly == []C17_InCallOrder /\ [][C17_PrefixKept]_vars

\* A course has two records, the first left as it was returned: the load
\* timed out in the round and the recovery pass submitted.
C17_Witness ==
  /\ Len(results) >= 2
  /\ \E i \in 1..Len(results), j \in 1..Len(results) :
       /\ i < j
       /\ results[i].value = results[j].value
       /\ "error" \in DOMAIN results[i]
       /\ "submitted" \in DOMAIN results[j] /\ results[j].submitted
       /\ trace[j].caller = "recovery"

\* C15: set_expected_grade_with_retries makes at most `attempts` attempts; it
\* returns at the first verification read that equals the target, and no step
\* (so no mutation) follows a return; when it returns without success every
\* attempt was made and the value returned is None; whatever fails in locating,
\* mutating, waiting or reading leads to the next attempt or to that return.
C15_Bounded ==
  m_fn = "general" =>
    /\ m_attempt <= m_attempts
    /\ m_pc \in {"rest", "enter", "locate", "strategy1", "strategy2", "strategy3",
                 "settle", "verify", "backoff", "returned"}
    /\ (m_pc = "returned" /\ m_result.ok) =>
          m_read.attempt = m_attempt /\ m_read.val = m_value
    /\ (m_pc = "returned" /\ ~m_result.ok) =>
          m_attempt = m_attempts /\ m_result.val = None
    /\ (m_pc \notin {"verify", "returned"} /\ m_read.attempt >= 1) => m_read.val # m_value

C15_StopsAtSuccess ==
  m_fn = "general" =>
    /\ m_pc # "returned"
    /\ (m_pc = "verify" /\ m_read' # m_read /\ m_read'.val = m_value) =>
          (m_pc' = "returned" /\ m_result'.ok /\ g_value' = g_value)

C15_BoundedRetry == []C15_Bounded /\ [][C15_StopsAtSuccess]_vars

\* Every attempt was made and failed, one at least by an exception: the
\* function has returned None.
C15_Witness ==
  /\ m_fn = "general" /\ m_pc = "returned" /\ ~m_result.ok
  /\ m_attempts = MaxAttempts /\ m_attempt = MaxAttempts
  /\ m_last_exception
  /\ m_read.attempt >= 1

\* C13: main exits with 2 when login_ucam returns False, which without
\* credentials it does before the site is visited; with 3, 4 or 5 when the
\* first, second or third menu click fails, no course having been run; and
\* with 0 whenever the menu was passed, whatever process_all_courses and the
\* status waits yielded.
C13_ExitCodes ==
  pc \in {"finally", "done"} =>
    /\ exit_from \in {"login", "nav1", "nav2", "nav3", "final_wait"}
    /\ ~has_credentials => (exit_from = "login" /\ ~site_visited)
    /\ exit_from = "login" => (exit_code = 2 /\ trace = <<>> /\ ~PacReturned)
    /\ exit_from = "nav1" => (exit_code = 3 /\ trace = <<>> /\ ~PacReturned)
    /\ exit_from = "nav2" => (exit_code = 4 /\ trace = <<>> /\ ~PacReturned)
    /\ exit_from = "nav3" => (exit_code = 5 /\ trace = <<>> /\ ~PacReturned)
    /\ exit_from = "final_wait" => (exit_code = 0 /\ PacReturned)
    /\ exit_code \in {2, 3, 4, 5} => results = <<>>

\* The third menu click failed after a login with credentials.
C13_Witness ==
  /\ pc = "done" /\ exit_from = "nav3" /\ exit_code = 5
  /\ has_credentials /\ site_visited

\* The positions of process_course, and those from which a caller takes the
\* record returned.
WfPositions == {"none", "select", "load", "grade", "fill", "submit", "check",
                "resubmit", "end", "done"}
AfterPositions == {"round_after", "retry_after", "leftover_after"}

\* C12: whatever step of process_course fails (select, load wait, grade,
\* radios, comment, submit, message check), the call ends by returning a record of its
\* course and never leaves its steps by an exception; the caller appends the
\* record and goes on with the courses that remain in its pass.
C12_RecordWhateverFails ==
  /\ wf \in WfPositions
  /\ wf # "none" => (pc \in AfterPositions /\ ev.value = status.value)
  /\ wf = "done" =>
       /\ "value" \in DOMAIN status /\ "start" \in DOMAIN status
       /\ ev.faults \subseteq {"select", "load", "grade", "fill", "comment", "submit",
                            "check", "resubmit"}
  /\ (pc = "round_item" /\ NextToProcess(initial_options, idx, processed_values)
                             <= Len(initial_options)) => ENABLED RoundCall
  /\ (pc = "retry_item" /\ idx <= Len(retry_values)) => ENABLED RetryCall
  /\ (pc = "leftover_item" /\ NextToProcess(leftover, idx, processed_values)
                                <= Len(leftover)) => ENABLED LeftoverCall

C12_PassGoesOn ==
  /\ (wf \notin {"none", "done"}) =>
        (wf' \in WfPositions \ {"none"} /\ pc' = pc /\ results' = results)
  /\ wf = "done" =>
        /\ results' = Append(results, status)
        /\ wf' = "none"
        /\ idx' = idx + 1
        /\ pc' = CASE pc = "round_after" -> "round_item"
                   [] pc = "retry_after" -> "retry_item"
                   [] OTHER -> "leftover_item"

C12_Isolation == []C12_RecordWhateverFails /\ [][C12_PassGoesOn]_vars

\* The second call of a round returns its record after its selection, its
\* grade setting and its submit step failed, the first call having timed out
\* at load.
C12_Witness ==
  /\ wf = "done" /\ pc = "round_after"
  /\ {"select", "grade", "fill", "comment", "submit"} \subseteq ev.faults
  /\ Len(results) = 1
  /\ "error" \in DOMAIN results[1]

\* C14: in a process_course call nothing is read of the page (the submit
\* controls, the message label) while an action on the page has been followed
\* by no wait, neither a quiescence wait nor a bounded one; the bounded load
\* wait is the wait that follows the selection of the course.
C14_SettleBeforeRead == ev.early = {}

\* The submit controls were looked up right after the radio clicks.
C14_Witness ==
  /\ wf = "check"
  /\ "submit_controls" \in ev.early
  /\ status.radios_clicked > 0
  /\ ev.clicks = 1

\* The positions of the round loop of process_all_courses, and those after it.
RoundPositions == {"round_begin", "round_item", "round_after"}
PastRounds == {"completed_check", "retry_begin", "retry_item", "retry_after", "save",
               "main_check", "leftover_item", "leftover_after", "final_wait",
               "finally", "done"}
\* The step that ends a round: the for loop over the snapshot is exhausted.
RoundEnds == pc = "round_item" /\ pc' \notin {"round_item", "round_after"}

\* C20: when the status wait after a round polled a label with a text other
\* than Pending! (in any case, stripped), the round loop stops there and no
\* process_course call is made by a later round; when it polled only absent
\* labels or Pending!, the rounds go on (while the round made progress and
\* rounds are left).
C20_NoRoundAfterOther ==
  /\ pc \in RoundPositions => seen \in {"none", "absent", "pending"}
  /\ (pc \in RoundPositions /\ rnd > 0) => seen \in {"absent", "pending"}

C20_RoundEnd ==
  /\ (RoundEnds /\ seen' = "other") => pc' = "completed_check"
  /\ (RoundEnds /\ seen' \in {"absent", "pending"} /\ made_progress /\ rnd + 1 < max_rounds)
        => (pc' = "round_begin" /\ rnd' = rnd + 1)
  /\ pc \in PastRounds =>
        /\ pc' \in PastRounds
        /\ \A c \in CourseValues : RunsBy("round", c)' = RunsBy("round", c)

C20_EarlyStop == []C20_NoRoundAfterOther /\ [][C20_RoundEnd]_vars

\* The first round ran a call and the wait after it read a text other than
\* Pending!: the rounds are over with three of them left.
C20_Witness ==
  /\ pc = "completed_check" /\ seen = "other"
  /\ rnd = 0 /\ made_progress /\ Len(trace) > 0

\* The wait after the first round found no label, and the second round begins.
C20_WitnessAbsent ==
  /\ pc = "round_begin" /\ rnd = 1 /\ seen = "absent" /\ Len(trace) > 0

\* A record that lacks submitted=true: no 'submitted' key, or submitted false.
LacksSubmitted(r) == ("submitted" \notin DOMAIN r) \/ ~r.submitted
\* The courses of the records of rs that lack submitted=true, in record order.
FailedOf(rs) ==
  LET failed == SelectSeq(rs, LacksSubmitted)
  IN  [i \in 1..Len(failed) |-> failed[i].value]
\* The last n records of results.
LastRecords(n) == SubSeq(results, Len(results) - n + 1, Len(results))
RecoveryPositions == {"retry_item", "retry_after"}

\* C19: a recovery pass runs only after the Completed wait that follows the
\* rounds failed, with a retry set that is not empty and fewer than
\* extra_attempts passes done; the calls a pass has made are one per course of
\* the retry set, in its order, and new_retry holds those whose new record
\* lacks submitted=true.
C19_PassRuns ==
  /\ attempt <= extra_attempts
  /\ pc \in RecoveryPositions =>
       /\ attempt < extra_attempts
       /\ retry_values # <<>>
       /\ seen = "not_completed"
       /\ idx - 1 <= Len(results) /\ Len(trace) = Len(results)
       /\ \A j \in 1..(idx - 1) :
            /\ results[Len(results) - (idx - 1) + j].value = retry_values[j]
            /\ trace[Len(trace) - (idx - 1) + j].caller = "recovery"
       /\ new_retry = FailedOf(LastRecords(idx - 1))

\* The steps of the recovery: the first retry set is the courses of the records
\* lacking submitted=true, when the wait did not read Completed!; a pass ends
\* after the last course of its set and the next set is the courses whose
\* record of this pass lacks submitted=true; a pass begins only with a set that
\* is not empty and passes left; a recovery call is for the next course of the set.
C19_Steps ==
  /\ (pc = "completed_check" /\ pc' # pc) =>
       /\ seen' = "completed" => pc' = "save"
       /\ seen' = "not_completed" =>
            (pc' = "retry_begin" /\ retry_values' = FailedOf(results) /\ attempt' = 0)
  /\ (pc = "retry_item" /\ pc' = "retry_begin") =>
       /\ idx = Len(retry_values) + 1
       /\ retry_values' = FailedOf(LastRecords(Len(retry_values)))
       /\ attempt' = attempt + 1
  /\ (pc = "retry_begin" /\ pc' # pc) =>
       IF retry_values = <<>> \/ attempt >= extra_attempts
       THEN pc' = "save" /\ results' = results
       ELSE pc' = "retry_item" /\ idx' = 1 /\ new_retry' = <<>>
  /\ (wf = "none" /\ wf' # "none" /\ ev'.caller = "recovery") =>
       (pc = "retry_item" /\ idx <= Len(retry_values) /\ ev'.value = retry_values[idx])

C19_RecoverySet == []C19_PassRuns /\ [][C19_Steps]_vars

\* The second pass begins with one course: both courses failed in the round,
\* the first with a load-timeout record, and one of them was submitted in the
\* first pass.
C19_Witness ==
  /\ pc = "retry_item" /\ attempt = 1 /\ idx = 1
  /\ Len(retry_values) = 1 /\ Len(results) = 4
  /\ "submitted" \notin DOMAIN results[1]
  /\ LacksSubmitted(results[2])

(***************************************************************************)
(* Termination. Every external browser call returns, so a step that is     *)
(* enabled is taken in the end: weak fairness of the steps of the program. *)
(***************************************************************************)
FairSpec == Spec /\ WF_vars(Next)

\* The steps of a mutator call, the remote page's own steps left out.
MutatorSteps ==
  \/ MutEnter \/ MutLocate \/ MutStrategy1 \/ MutStrategy2 \/ MutStrategy3
  \/ MutSettle \/ MutVerify \/ MutBackoff
FairSpecMutator == SpecMutator /\ WF_vars(MutatorSteps)
FairSpecIdle == SpecIdle /\ WF_vars(NextIdle)

\* C18: every execution of main ends: it reaches the end of main, past
\* driver.quit(), with an exit code set, whatever the remote page does (a page
\* that stays Pending or never loads included).
C18_Ends == <>(pc = "done" /\ exit_code \in {0, 2, 3, 4, 5} /\ quit_calls = 1)

\* The loops of main are bounded: at most max_retries login attempts, max_rounds
\* rounds, extra_attempts recovery passes, one call per item of a pass, at most
\* two submit steps in a call, and driver.quit() once.
C18_LoopsBounded ==
  /\ login_attempt \in 0..max_retries
  /\ rnd \in 0..(max_rounds - 1)
  /\ attempt \in 0..extra_attempts
  /\ pc \in RoundPositions => idx \in 0..(Len(initial_options) + 1)
  /\ pc \in RecoveryPositions => idx \in 1..(Len(retry_values) + 1)
  /\ pc \in {"leftover_item", "leftover_after"} => idx \in 1..(Len(leftover) + 1)
  /\ ev.submits \in 0..2
  /\ quit_calls \in 0..1
  /\ Len(results) <= Len(initial_options) * (1 + extra_attempts) + NumCourses

C18_Termination == []C18_LoopsBounded /\ C18_Ends

\* The quiescence wait ends, by a return or by its timeout; a mutator call
\* returns, while the remote page goes on replacing the control.
C18_IdleEnds == <>(w_pc \in {"returned", "raised"})
C18_MutatorReturns == <>(m_pc = "returned")

\* main ended after every loop ran to its bound: three login attempts are
\* excluded by the successful login, the rounds and both recovery passes ran
\* with the status Pending in every read, and the leftover pass made a call.
C18_Witness ==
  /\ pc = "done" /\ exit_code = 0 /\ quit_calls = 1
  /\ only_pending
  /\ \E i \in 1..Len(trace) : trace[i].caller = "leftover"
  /\ \E c \in CourseValues : RunsBy("recovery", c) = extra_attempts

\* C21: when js_set_select_and_postback reported success for the selection of
\* a call, the course select of the page holds the course of the call: the
\* success is that of a verified mutation.
C21_VerifiedSelection ==
  (wf \notin {"none", "select"} /\ ev.js_ok) => page.sel = ev.value

\* js_set_select_and_postback returned True on the panel of the course
\* selected before, with the select still on that course.
C21_Witness ==
  /\ wf = "load" /\ ev.js_ok
  /\ "select" \notin ev.faults
  /\ page.sel \in CourseValues /\ page.sel # ev.value
  /\ EvaluationLoaded(DetailOf(page))

\* C22: both mutators follow one protocol in an attempt: the three mutation
\* strategies are applied before the settle wait and the verification, and
\* the sleep after failed attempt n is n times the delay parameter.
C22_SameProtocol ==
  /\ m_pc \in {"settle", "verify"} => m_did.strategies = {1, 2, 3}
  /\ m_did.slept.units = m_did.slept.attempt

\* The panel function reads the value back in its second attempt, after one
\* strategy and a sleep of one delay.
C22_Witness ==
  /\ m_fn = "panel" /\ m_pc = "verify" /\ m_attempt = 2
  /\ m_did.strategies = {2}
  /\ m_did.slept = [attempt |-> 1, units |-> 1]

\* The panel function slept one delay after its second failed attempt.
C22_WitnessBackoff ==
  /\ m_fn = "panel" /\ m_attempt = 3
  /\ m_did.slept = [attempt |-> 2, units |-> 1]

\* The controls a submit call clicks without an exception, among those it
\* found, and the first of them in the order of preference.
ClickedOk(e) == e.found \ ClickRaisesOf(e.value)
FirstPreferred(ids) ==
  preferred[CHOOSE i \in 1..Len(preferred) :
              preferred[i] \in ids /\ \A j \in 1..(i - 1) : preferred[j] \notin ids]

\* C23: after the submit step of a call, when some control was found and its
\* click did not raise, the record has submitted=true, clicked_submit_id the
\* first such control in the order Lab submit, Theory submit, Theory top, no
\* submit_error, and one click was made; otherwise it has submitted=false,
\* clicked_submit_id None, submit_error='no_submit_button_found', and no click
\* was made.
C23_SubmitRecorded ==
  (wf \in {"check", "resubmit", "end", "done"} /\ ev.submits = 1) =>
     IF ClickedOk(ev) # {}
     THEN /\ status.submitted = TRUE
          /\ status.clicked_submit_id = FirstPreferred(ClickedOk(ev))
          /\ "submit_error" \notin DOMAIN status
          /\ ev.clicks = 1
     ELSE /\ status.submitted = FALSE
          /\ status.clicked_submit_id = NoneId
          /\ status.submit_error = "no_submit_button_found"
          /\ ev.clicks = 0

\* A submit call clicks at most one control.
C23_OneClick ==
  ev'.submits = ev.submits + 1 => ev'.clicks \in {ev.clicks, ev.clicks + 1}

C23_SubmitStep == []C23_SubmitRecorded /\ [][C23_OneClick]_vars

\* The Lab submit control was found and its click raised; the Theory top
\* control, the next one found in the order, was clicked.
C23_Witness ==
  /\ wf = "check" /\ ev.submits = 1
  /\ "ctl00_MainContainer_btnLabSubmit" \in ev.found
  /\ status.submitted = TRUE
  /\ status.clicked_submit_id = "ctl00_MainContainer_btnTheoryTop"

\* No control was found: the record of the second case.
C23_WitnessNone ==
  /\ wf = "end" /\ ev.submits = 1 /\ ev.found = {}
  /\ status.submitted = FALSE /\ status.clicked_submit_id = NoneId

\* The radios of a form that fill_strongly_agree_in_table clicks: those not
\* selected yet whose handling does not raise.
ClickedRadios(radios) ==
  {i \in 1..Len(radios) : ~radios[i].selected /\ ~radios[i].raises}

\* C24: radios_clicked of a record is the number of value 5 radios that the
\* call clicked; a radio that is already selected is not clicked and not
\* counted, and a radio that raises does not end the count of the others.
C24_FillCount ==
  (wf # "none" /\ "radios_clicked" \in DOMAIN status) =>
     status.radios_clicked = Cardinality(ClickedRadios(RadiosOf(status.value)))

\* The form of course 101 has two value 5 radios, one of them selected
\* already: one radio was clicked and radios_clicked is 2.
C24_Witness ==
  /\ wf = "submit" /\ status.value = c101
  /\ Cardinality(ClickedRadios(RadiosOf(c101))) = 1
  /\ status.radios_clicked = 2

\* C25: main exits with 3, 4 or 5 only after three click_xpath calls for that
\* menu click have failed, and no menu click takes more than three calls.
C25_NavRetried ==
  /\ nav_clicks \in 0..max_retries
  /\ exit_code \in {3, 4, 5} => nav_clicks = max_retries

\* main left with exit code 4 after one failed call for the second menu click.
C25_Witness ==
  /\ pc = "finally" /\ exit_code = 4 /\ exit_from = "nav2"
  /\ nav_clicks = 1

C27_RejectedRecovered ==
  (pc = "retry_begin" /\ attempt = 0) =>
     \A i \in 1..Len(trace) :
        (trace[i].clicks >= 1 /\ trace[i].msg /\ ~trace[i].fix) =>
           \E j \in 1..Len(retry_values) : retry_values[j] = trace[i].value

\* The recovery begins with the first course out of the retry set, its one
\* call having met the message with the correction failed: its record has
\* submitted=true and resubmit_after_fix=false.
C27_Witness ==
  /\ pc = "retry_begin" /\ attempt = 0 /\ seen = "not_completed"
  /\ Len(trace) >= 1
  /\ trace[1].clicks = 1 /\ trace[1].msg /\ ~trace[1].fix
  /\ results[1].submitted /\ ~results[1].resubmit_after_fix
  /\ \A j \in 1..Len(retry_values) : retry_values[j] # trace[1].value

\* C28: when a call for a course has clicked a submit control, the course
\* select of the page holds that course and the panel on the page is the one
\* loaded for it.
C28_RightCourse ==
  (wf \in {"check", "resubmit", "end", "done"} /\ ev.clicks >= 1) =>
     /\ page.sel = ev.value
     /\ page.table /\ page.faculty = FacultyOf(ev.value)

\* The call for course 102 clicked a submit control on the panel of course
\* 101: its selection failed, the select stayed on 101, and the load wait was
\* met by the table and the faculty label that the call before had left.
C28_Witness ==
  /\ wf = "check" /\ ev.value = c102 /\ ev.clicks = 1
  /\ "select" \in ev.faults /\ ev.loaded
  /\ page.sel = c101 /\ page.table /\ page.faculty = FacultyOf(c101)
  /\ Len(trace) = 1 /\ trace[1].value = c101

\* The shape of a record returned by process_course.
RecordShape(r) ==
  /\ ("resubmit_after_fix" \in DOMAIN r /\ r.resubmit_after_fix) =>
        ("submitted" \in DOMAIN r /\ r.submitted)
  /\ ("submitted" \in DOMAIN r /\ ~r.submitted) =>
        /\ "submit_error" \in DOMAIN r /\ r.submit_error = "no_submit_button_found"
        /\ r.clicked_submit_id = NoneId
        /\ DOMAIN r \cap {"resubmit_after_fix", "resubmit_clicked_id"} = {}
  /\ ("error" \in DOMAIN r /\ r.error = "evaluation_load_timeout") =>
        DOMAIN r \cap {"expected_set_initial", "radios_clicked", "submitted",
                       "submit_error", "resubmit_after_fix"} = {}

\* C29: every record that process_course returns has the shape: a resubmit
\* only after a submit; with submitted=false the submit_error, a None id and
\* no resubmit keys; with the load-timeout error none of the keys of the
\* later steps.
C29_RecordShape ==
  /\ wf = "done" => RecordShape(status)
  /\ \A i \in 1..Len(results) : RecordShape(results[i])

\* The three kinds of record side by side: a load timeout, no submit control
\* clicked, and a resubmit after the correction.
C29_Witness ==
  /\ \E i \in 1..Len(results) : "error" \in DOMAIN results[i]
  /\ \E i \in 1..Len(results) :
        "submitted" \in DOMAIN results[i] /\ ~results[i].submitted
  /\ \E i \in 1..Len(results) :
        "resubmit_after_fix" \in DOMAIN results[i] /\ results[i].resubmit_after_fix

\* C30: on every way out of main driver.quit() is called once: main is left
\* only through its finally clause, whatever the exit code, and after the
\* call nothing more is done with the page.
C30_QuitOnce ==
  /\ quit_calls \in {0, 1}
  /\ (pc = "done") = (quit_calls = 1)
  /\ exit_code # -1 => pc \in {"finally", "done"}
  /\ pc = "finally" => (exit_code \in {0, 2, 3, 4, 5} /\ ENABLED MainQuit)

C30_NothingAfterQuit ==
  quit_calls = 1 => (quit_calls' = 1 /\ pc' = pc /\ page' = page /\ wf' = wf
                     /\ results' = results /\ site_visited' = site_visited)

C30_SessionRelease == []C30_QuitOnce /\ [][C30_NothingAfterQuit]_vars

\* main ended with exit code 2 after max_retries login attempts on the site,
\* and driver.quit() was called once.
C30_Witness ==
  /\ pc = "done" /\ exit_code = 2 /\ exit_from = "login" /\ site_visited
  /\ quit_calls = 1

\* The same after a failed menu click and after the whole run.
C30_WitnessNav == pc = "done" /\ exit_code = 5 /\ quit_calls = 1
C30_WitnessRun == pc = "done" /\ exit_code = 0 /\ quit_calls = 1 /\ Len(results) > 0

=============================================================================
